---- MODULE Spec2Model ----
(***************************************************************************)
(* Ledger engine of balanca-backend-api (internal/services/                *)
(* transaction_service.go) together with the planned-expense transitions   *)
(* it shares rows with.  The committed database is the state; every        *)
(* request is a process that walks through its handler statement by        *)
(* statement.  Reads go through the repositories (s.db, outside the gorm   *)
(* transaction, READ COMMITTED); writes go through tx and become visible   *)
(* at tx.Commit().  tx.Save takes the row lock of the row it updates and   *)
(* keeps it until commit or rollback.                                      *)
(***************************************************************************)
EXTENDS Integers, Sequences, FiniteSets, Bags, TLC

\* ------------------------------------------------------------------ bounds
\* requests served in one run
MaxOps == 3

\* ------------------------------------------------------------ the universe
Procs == {"p1", "p2"}
Users == {"u1"}
Groups == {"g1"}
Expenses == {"e1", "e2"}
Amounts == {2, 3}
NONE == "none"
NoProc == "free"

\* planned expenses that exist: e1 belongs to group g1, e2 is personal (u1),
\* e3 belongs to another group
ExpenseGroup(e) == IF e = "e1" THEN "g1" ELSE IF e = "e3" THEN "g2" ELSE NONE
ExpenseUser(e) == "u1"

\* callers that are no active member of g1: an open invitation, a rejected
\* one, a member who left (RemoveMember deleted the row), no row at all
Strangers == {"u2", "u3", "u4", "u5"}

\* a user id whose users row is gone while its user_groups row is still there
Ghost == "u0"

\* a second user with a balance of its own; it takes no part in g1
OtherUsers == {"u6"}

\* user_groups rows of g1
MemberStatus(u, g) ==
    IF g # "g1" THEN "none"
    ELSE IF u \in {"u1", Ghost} THEN "active"
    ELSE IF u = "u2" THEN "pending"
    ELSE IF u = "u3" THEN "rejected"
    ELSE IF u = "u4" THEN "left"
    ELSE "none"

\* a user_groups row; deleted stands for a deleted_at that is set, and id
\* for the uuid primary key (ids are only compared and ordered)
UserGroup(id, u, g, role, status) ==
    [id |-> id, user |-> u, group |-> g, role |-> role, status |-> status,
     deleted |-> FALSE]

\* the rows of g1 as a table; the ledger handlers never write it
LedgerMembers ==
    {UserGroup(1, "u1", "g1", "manager", "active"),
     UserGroup(2, Ghost, "g1", "member", "active"),
     UserGroup(3, "u2", "g1", "member", "pending"),
     UserGroup(4, "u3", "g1", "member", "rejected"),
     [UserGroup(5, "u4", "g1", "member", "active") EXCEPT !.deleted = TRUE]}

VARIABLES
    ubal,       \* users.balance, committed
    gbal,       \* groups.balance, committed
    utx,        \* transactions rows owned by each user, in commit order
    gtx,        \* transactions rows owned by each group, in commit order
    audit,      \* audit_logs rows (a bag)
    exp,        \* planned_expenses rows: status and payment fields
    gone,       \* groups rows whose deleted_at is set
    members,    \* user_groups rows
    locks,      \* row -> process whose open transaction holds its row lock
    pc,         \* process -> position in its handler
    op,         \* process -> the request it is serving
    rd,         \* process -> balances its repository reads returned
    result,     \* process -> error code returned ("OK" for a nil error)
    ret,        \* process -> transaction record returned to the caller
    wrote,      \* process -> a write of this request is committed
    opCount     \* requests admitted so far

vars == <<ubal, gbal, utx, gtx, audit, exp, gone, members, locks, pc, op,
          rd, result, ret, wrote, opCount>>

dbvars == <<ubal, gbal, utx, gtx, audit, exp, gone, members>>

Rows == Users \cup Groups \cup Expenses

NoOp == [kind |-> NONE, user |-> NONE, group |-> NONE, type |-> NONE,
         amt |-> 0, src |-> NONE, exp |-> NONE]
NoTx == [ownerType |-> NONE]

PlannedRow == [status |-> "planned", actual |-> 0, paidBy |-> NONE,
               paidAt |-> FALSE]
NoRd == [ubal |-> 0, gbal |-> 0, idx |-> 0, row |-> PlannedRow]

\* --------------------------------------------------------------- requests
PersonalReqs ==
    {[kind |-> "personal", user |-> u, group |-> NONE, type |-> t,
      amt |-> a, src |-> "salary", exp |-> NONE] :
        u \in Users, t \in {"CREDIT", "DEBIT"}, a \in Amounts}
GroupReqs ==
    {[kind |-> "group", user |-> u, group |-> g, type |-> t,
      amt |-> a, src |-> "salary", exp |-> NONE] :
        u \in Users, g \in Groups, t \in {"CREDIT", "DEBIT"}, a \in Amounts}
TransferReqs ==
    {[kind |-> "transfer", user |-> u, group |-> g, type |-> "DEBIT",
      amt |-> a, src |-> "group_transfer", exp |-> NONE] :
        u \in Users, g \in Groups, a \in Amounts}
PayReqs ==
    {[kind |-> "pay", user |-> u, group |-> g, type |-> "DEBIT",
      amt |-> a, src |-> "expense_payment", exp |-> e] :
        u \in Users, g \in Groups, a \in Amounts, e \in Expenses}
IncomeReqs ==
    {[kind |-> "income", user |-> u, group |-> g, type |-> "CREDIT",
      amt |-> a, src |-> "gift", exp |-> NONE] :
        u \in Users, g \in Groups, a \in Amounts}
MarkBoughtReqs ==
    {[kind |-> "markBought", user |-> u, group |-> NONE,
      type |-> NONE, amt |-> a, src |-> NONE, exp |-> e] :
        u \in Users, a \in Amounts, e \in Expenses}
MarkCancelledReqs ==
    {[kind |-> "markCancelled", user |-> u, group |-> NONE,
      type |-> NONE, amt |-> 0, src |-> NONE, exp |-> e] :
        u \in Users, e \in Expenses}

LedgerKinds == {"personal", "group", "transfer", "pay", "income"}

\* ------------------------------------------------- what a handler computes
\* arithmetic that adds whatever the direction
NewUserBalanceAdds(o, r) == r.ubal + o.amt

\* the balance the handler computed for the user row it saves
NewUserBalance(o, r) ==
    IF o.type = "CREDIT" THEN r.ubal + o.amt ELSE r.ubal - o.amt

\* the balance the handler computed for the group row it saves
NewGroupBalance(o, r) ==
    IF o.kind = "transfer" THEN r.gbal + o.amt
    ELSE IF o.type = "CREDIT" THEN r.gbal + o.amt ELSE r.gbal - o.amt

\* models.Transaction built for a user owner
UserTx(o, r) ==
    [ownerType |-> "USER", ownerId |-> o.user,
     type |-> o.type, amount |-> o.amt, balance |-> NewUserBalance(o, r),
     source |-> o.src,
     groupId |-> IF o.kind = "transfer" THEN o.group ELSE NONE,
     paidBy |-> NONE, plannedExpenseId |-> NONE, userId |-> o.user]

\* models.Transaction built for a group owner
GroupTx(o, r) ==
    [ownerType |-> "GROUP", ownerId |-> o.group,
     type |-> IF o.kind = "transfer" THEN "CREDIT" ELSE o.type,
     amount |-> o.amt, balance |-> NewGroupBalance(o, r),
     source |-> IF o.kind = "transfer" THEN "member" ELSE o.src,
     groupId |-> o.group,
     paidBy |-> IF o.kind \in {"transfer", "pay"} THEN o.user ELSE NONE,
     plannedExpenseId |-> IF o.kind \in {"pay", "group"} THEN o.exp
                          ELSE NONE,
     userId |-> o.user]

HasUserTx(o) == o.kind \in {"personal", "transfer"}
HasGroupTx(o) == o.kind \in {"group", "transfer", "pay", "income"}

\* a transaction row is identified by its owner and its place in the
\* owner's rows (the uuid BeforeCreate draws is only ever compared)
UserTxId(o) == <<"USER", o.user, Len(utx[o.user]) + 1>>
GroupTxId(o) == <<"GROUP", o.group, Len(gtx[o.group]) + 1>>

AuditRow(entity, id, action, by, g) ==
    [entity |-> entity, entityId |-> id, action |-> action, by |-> by,
     groupId |-> g]

\* the audit rows the open gorm transaction has inserted
AuditRecords(o) ==
    IF o.kind = "personal" THEN
        {AuditRow("transaction", UserTxId(o), "create", o.user, NONE)}
    ELSE IF o.kind = "group" THEN
        {AuditRow("transaction", GroupTxId(o), "create", o.user, o.group)}
    ELSE IF o.kind = "transfer" THEN
        {AuditRow("transaction", UserTxId(o), "transfer_to_group", o.user,
                  NONE),
         AuditRow("transaction", GroupTxId(o), "receive_from_member", o.user,
                  o.group)}
    ELSE IF o.kind = "pay" THEN
        {AuditRow("planned_expense", <<o.exp>>, "mark_as_paid", o.user,
                  o.group)}
    ELSE
        {AuditRow("transaction", GroupTxId(o), "record_external_income",
                  o.user, o.group)}

\* a transfer that saves the group before the user when the amount is 3
SaveRowsByAmount(o) ==
    IF o.kind = "personal" THEN <<o.user>>
    ELSE IF o.kind = "transfer" THEN
        IF o.amt = 3 THEN <<o.group, o.user>> ELSE <<o.user, o.group>>
    ELSE IF o.kind = "pay" THEN <<o.exp, o.group>>
    ELSE <<o.group>>

\* rows the handler saves through tx, in the order it saves them
SaveRows(o) ==
    IF o.kind = "personal" THEN <<o.user>>
    ELSE IF o.kind = "transfer" THEN <<o.user, o.group>>
    ELSE IF o.kind = "pay" THEN <<o.exp, o.group>>
    ELSE <<o.group>>

\* transactionRepository.FindByID of the row the handler returns: the
\* group's row for every handler but CreatePersonalTransaction
FindByID(o, idx) ==
    IF o.kind = "personal" THEN utx[o.user][idx] ELSE gtx[o.group][idx]

Release(p) ==
    [r \in DOMAIN locks |-> IF locks[r] = p THEN NoProc ELSE locks[r]]

\* the handler goes on to its next statement with the values it has read
Proceed(p, next, r) ==
    /\ pc' = [pc EXCEPT ![p] = next]
    /\ rd' = [rd EXCEPT ![p] = r]
    /\ result' = [result EXCEPT ![p] = NONE]
    /\ ret' = [ret EXCEPT ![p] = NoTx]

\* the handler returns code (and a record, when it has one) to its caller
Finish(p, code, t) ==
    /\ pc' = [pc EXCEPT ![p] = "done"]
    /\ rd' = [rd EXCEPT ![p] = NoRd]
    /\ result' = [result EXCEPT ![p] = code]
    /\ ret' = [ret EXCEPT ![p] = t]

\* ------------------------------------------------------------------- Init
Init ==
    /\ ubal = [u \in Users |-> 0]
    /\ gbal = [g \in Groups |-> 0]
    /\ utx = [u \in Users |-> <<>>]
    /\ gtx = [g \in Groups |-> <<>>]
    /\ audit = EmptyBag
    /\ exp = [e \in Expenses |-> PlannedRow]
    /\ gone = {}
    /\ members = LedgerMembers
    /\ locks = [r \in Rows |-> NoProc]
    /\ pc = [p \in Procs |-> "idle"]
    /\ op = [p \in Procs |-> NoOp]
    /\ rd = [p \in Procs |-> NoRd]
    /\ result = [p \in Procs |-> NONE]
    /\ ret = [p \in Procs |-> NoTx]
    /\ wrote = [p \in Procs |-> FALSE]
    /\ opCount = 0

\* a request arrives at a worker that is free (it has returned its previous
\* response): bookkeeping shared by every handler's first statement
Begin(p, o) ==
    /\ pc[p] \in {"idle", "done"}
    /\ opCount < MaxOps
    /\ opCount' = opCount + 1
    /\ op' = [op EXCEPT ![p] = o]
    /\ wrote' = [wrote EXCEPT ![p] = FALSE]
    /\ UNCHANGED <<dbvars, locks>>

\* a debit that is never refused
InsufficientUnchecked(bal, amt) == FALSE

\* a balance check that lets a debit of one unit too many through
InsufficientOffByOne(bal, amt) == bal + 1 < amt

\* the guard of every debit: user.Balance < req.Amount, group.Balance <
\* req.Amount, group.Balance < req.ActualPrice
Insufficient(bal, amt) == bal < amt

\* a membership check that lets an open invitation through
NotMemberUnlessInvited(o) ==
    MemberStatus(o.user, o.group) \notin {"active", "pending"}

\* s.groupRepo.FindByUserAndGroup: err != nil || Status != "active"
NotMember(o) == MemberStatus(o.user, o.group) # "active"

\* ------------------------------------------------ CreatePersonalTransaction
\* tx := s.db.Begin(); s.userRepo.FindByID(userID); the DEBIT balance check
PersonalCall(p, o) ==
    /\ Begin(p, o)
    /\ IF o.user \notin DOMAIN ubal
       THEN \* FindByID returns (nil, nil); user.Balance panics; the
            \* deferred recover() rolls back and the handler returns
            \* (nil, nil)
            Finish(p, "OK", NoTx)
       ELSE IF o.type = "DEBIT" /\ Insufficient(ubal[o.user], o.amt)
       THEN Finish(p, "INSUFFICIENT_BALANCE", NoTx)
       ELSE Proceed(p, "save", [NoRd EXCEPT !.ubal = ubal[o.user]])

CreatePersonalTransaction(p) == \E o \in PersonalReqs : PersonalCall(p, o)

\* --------------------------------------------------- CreateGroupTransaction
\* membership check, s.groupRepo.FindByID(groupID), the DEBIT balance check
GroupCall(p, o) ==
    /\ Begin(p, o)
    /\ IF NotMember(o)
       THEN Finish(p, "FORBIDDEN", NoTx)
       ELSE IF o.group \in gone
       THEN Finish(p, "GROUP_NOT_FOUND", NoTx)
       ELSE IF o.type = "DEBIT" /\ Insufficient(gbal[o.group], o.amt)
       THEN Finish(p, "INSUFFICIENT_BALANCE", NoTx)
       ELSE Proceed(p, "save", [NoRd EXCEPT !.gbal = gbal[o.group]])

CreateGroupTransaction(p) == \E o \in GroupReqs : GroupCall(p, o)

\* ----------------------------------------------------- RecordExternalIncome
\* membership check and s.groupRepo.FindByID(groupID); no balance check
IncomeCall(p, o) ==
    /\ Begin(p, o)
    /\ IF NotMember(o)
       THEN Finish(p, "FORBIDDEN", NoTx)
       ELSE IF o.group \in gone
       THEN Finish(p, "GROUP_NOT_FOUND", NoTx)
       ELSE Proceed(p, "save", [NoRd EXCEPT !.gbal = gbal[o.group]])

RecordExternalIncome(p) == \E o \in IncomeReqs : IncomeCall(p, o)

\* ---------------------------------------------------------- TransferToGroup
\* membership check, s.userRepo.FindByID(userID), the balance check
TransferCall(p, o) ==
    /\ Begin(p, o)
    /\ IF NotMember(o)
       THEN Finish(p, "FORBIDDEN", NoTx)
       ELSE IF o.user \notin DOMAIN ubal
       THEN \* nil user: panic, recover(), (nil, nil)
            Finish(p, "OK", NoTx)
       ELSE IF Insufficient(ubal[o.user], o.amt)
       THEN Finish(p, "INSUFFICIENT_BALANCE", NoTx)
       ELSE Proceed(p, "read2", [NoRd EXCEPT !.ubal = ubal[o.user]])

TransferToGroup(p) == \E o \in TransferReqs : TransferCall(p, o)

\* TransferToGroup: s.groupRepo.FindByID(req.GroupID), a later read
FindGroup(p) ==
    /\ pc[p] = "read2"
    /\ IF op[p].group \in gone
       THEN Finish(p, "GROUP_NOT_FOUND", NoTx)
       ELSE Proceed(p, "save", [rd[p] EXCEPT !.gbal = gbal[op[p].group]])
    /\ UNCHANGED <<dbvars, locks, op, wrote, opCount>>

\* ---------------------------------------------------------- PayGroupExpense
\* membership check, s.expenseRepo.FindByID, group and status checks
\* a payment that never looks at the status of the expense
PayCallAnyStatus(p, o) ==
    /\ Begin(p, o)
    /\ IF NotMember(o)
       THEN Finish(p, "FORBIDDEN", NoTx)
       ELSE IF o.exp \notin DOMAIN exp
       THEN Finish(p, "EXPENSE_NOT_FOUND", NoTx)
       ELSE IF ExpenseGroup(o.exp) # o.group
       THEN Finish(p, "FORBIDDEN", NoTx)
       ELSE Proceed(p, "read", NoRd)

PayCall(p, o) ==
    /\ Begin(p, o)
    /\ IF NotMember(o)
       THEN Finish(p, "FORBIDDEN", NoTx)
       ELSE IF o.exp \notin DOMAIN exp
       THEN Finish(p, "EXPENSE_NOT_FOUND", NoTx)
       ELSE IF ExpenseGroup(o.exp) # o.group
       THEN Finish(p, "FORBIDDEN", NoTx)
       ELSE IF exp[o.exp].status # "planned"
       THEN Finish(p, "INVALID_STATUS", NoTx)
       ELSE Proceed(p, "read", NoRd)

PayGroupExpense(p) == \E o \in PayReqs : PayCall(p, o)

\* PayGroupExpense: s.groupRepo.FindByID(groupID) inside the transaction
\* scope, and the balance check on what it returned
FindOwner(p) ==
    /\ pc[p] = "read"
    /\ IF op[p].group \in gone
       THEN Finish(p, "GROUP_NOT_FOUND", NoTx)
       ELSE IF Insufficient(gbal[op[p].group], op[p].amt)
       THEN Finish(p, "INSUFFICIENT_BALANCE", NoTx)
       ELSE Proceed(p, "save", [NoRd EXCEPT !.gbal = gbal[op[p].group]])
    /\ UNCHANGED <<dbvars, locks, op, wrote, opCount>>

\* ------------------------------------------- the writes of the five handlers
\* tx.Create of the transaction rows (private to the open transaction) and
\* tx.Save of the first row: an UPDATE that waits for the row lock
TxSave(p) ==
    /\ pc[p] = "save"
    /\ LET r == SaveRows(op[p])[1] IN
       /\ locks[r] \in {NoProc, p}
       /\ locks' = [locks EXCEPT ![r] = p]
    /\ pc' = [pc EXCEPT ![p] = IF Len(SaveRows(op[p])) > 1 THEN "save2"
                               ELSE "commit"]
    /\ UNCHANGED <<dbvars, op, rd, result, ret, wrote, opCount>>

\* tx.Save of the second row (TransferToGroup, PayGroupExpense)
TxSaveSecond(p) ==
    /\ pc[p] = "save2"
    /\ LET r == SaveRows(op[p])[2] IN
       /\ locks[r] \in {NoProc, p}
       /\ locks' = [locks EXCEPT ![r] = p]
    /\ pc' = [pc EXCEPT ![p] = "commit"]
    /\ UNCHANGED <<dbvars, op, rd, result, ret, wrote, opCount>>

\* an UPDATE of users without its WHERE id = ?
CommitUbalEveryUser(o, r) ==
    IF HasUserTx(o)
    THEN [u \in DOMAIN ubal |-> NewUserBalance(o, r)] ELSE ubal

\* what tx.Commit() makes visible
CommitUbal(o, r) ==
    IF HasUserTx(o)
    THEN [ubal EXCEPT ![o.user] = NewUserBalance(o, r)] ELSE ubal
CommitGbal(o, r) ==
    IF HasGroupTx(o)
    THEN [gbal EXCEPT ![o.group] = NewGroupBalance(o, r)] ELSE gbal
CommitUtx(o, r) ==
    IF HasUserTx(o)
    THEN [utx EXCEPT ![o.user] = Append(@, UserTx(o, r))] ELSE utx
CommitGtx(o, r) ==
    IF HasGroupTx(o)
    THEN [gtx EXCEPT ![o.group] = Append(@, GroupTx(o, r))] ELSE gtx
CommitExp(o) ==
    IF o.kind = "pay"
    THEN [exp EXCEPT ![o.exp] = [status |-> "bought", actual |-> o.amt,
                                 paidBy |-> o.user, paidAt |-> TRUE]]
    ELSE exp
CommitAudit(o) == audit (+) SetToBag(AuditRecords(o))

\* tx.Create(auditLog) and tx.Commit()
TxCommit(p) ==
    /\ pc[p] = "commit"
    /\ ubal' = CommitUbal(op[p], rd[p])
    /\ gbal' = CommitGbal(op[p], rd[p])
    /\ utx' = CommitUtx(op[p], rd[p])
    /\ gtx' = CommitGtx(op[p], rd[p])
    /\ audit' = CommitAudit(op[p])
    /\ exp' = CommitExp(op[p])
    /\ locks' = Release(p)
    /\ wrote' = [wrote EXCEPT ![p] = TRUE]
    /\ Proceed(p, "readback",
               [NoRd EXCEPT !.idx = IF op[p].kind = "personal"
                                    THEN Len(utx[op[p].user]) + 1
                                    ELSE Len(gtx[op[p].group]) + 1])
    /\ UNCHANGED <<gone, members, op, opCount>>

\* a failure path that returns without tx.Rollback() taking the inserted
\* transaction rows back
TxFailsKeepsRows(p) ==
    /\ pc[p] \in {"save", "save2", "commit"}
    /\ locks' = Release(p)
    /\ utx' = CommitUtx(op[p], rd[p])
    /\ gtx' = CommitGtx(op[p], rd[p])
    /\ Finish(p, "SERVER_ERROR", NoTx)
    /\ UNCHANGED <<ubal, gbal, audit, exp, gone, members, op,
                   wrote, opCount>>

\* a tx statement (Create, Save, Create of the audit row, Commit) returns
\* an error: tx.Rollback() and SERVER_ERROR
TxFails(p) ==
    /\ pc[p] \in {"save", "save2", "commit"}
    /\ locks' = Release(p)
    /\ Finish(p, "SERVER_ERROR", NoTx)
    /\ UNCHANGED <<dbvars, op, wrote, opCount>>

\* s.transactionRepo.FindByID after the commit, mapped to the response
FindCreated(p) ==
    /\ pc[p] = "readback"
    /\ Finish(p, "OK", FindByID(op[p], rd[p].idx))
    /\ UNCHANGED <<dbvars, locks, op, wrote, opCount>>

\* that FindByID returns an error
FindCreatedFails(p) ==
    /\ pc[p] = "readback"
    /\ Finish(p, "SERVER_ERROR", NoTx)
    /\ UNCHANGED <<dbvars, locks, op, wrote, opCount>>

\* --------------------------------------------------- plannedExpenseService
\* MarkAsBought up to the repository call: FindByID and the checks
MarkBoughtCall(p, o) ==
    /\ Begin(p, o)
    /\ IF exp[o.exp].status # "planned"
       THEN Finish(p, "INVALID_STATUS", NoTx)
       ELSE IF ExpenseGroup(o.exp) # NONE
       THEN Finish(p, "USE_TRANSACTION_FLOW", NoTx)
       ELSE IF ExpenseUser(o.exp) # o.user
       THEN Finish(p, "FORBIDDEN", NoTx)
       ELSE Proceed(p, "mark", NoRd)

MarkAsBought(p) == \E o \in MarkBoughtReqs : MarkBoughtCall(p, o)

\* MarkAsCancelled up to the repository call: FindByID and the permission
CancelCall(p, o) ==
    /\ Begin(p, o)
    /\ IF /\ ExpenseUser(o.exp) # o.user
          /\ \/ ExpenseGroup(o.exp) = NONE
             \/ MemberStatus(o.user, ExpenseGroup(o.exp)) # "active"
       THEN Finish(p, "FORBIDDEN", NoTx)
       ELSE Proceed(p, "mark", NoRd)

MarkAsCancelled(p) == \E o \in MarkCancelledReqs : CancelCall(p, o)

\* the row plannedExpenseRepository.MarkAsBought / MarkAsCancelled writes
MarkedRow(o, row) ==
    IF o.kind = "markBought"
    THEN [status |-> "bought", actual |-> o.amt, paidBy |-> o.user,
          paidAt |-> TRUE]
    ELSE [row EXCEPT !.status = "cancelled"]

\* a cancellation that gives back to the user what the expense had cost
RepoMarkRefunds(p) ==
    /\ pc[p] = "mark"
    /\ locks[op[p].exp] = NoProc
    /\ exp' = [exp EXCEPT ![op[p].exp] = MarkedRow(op[p], @)]
    /\ ubal' = IF op[p].kind = "markCancelled"
               THEN [ubal EXCEPT ![op[p].user] = @ + exp[op[p].exp].actual]
               ELSE ubal
    /\ wrote' = [wrote EXCEPT ![p] = TRUE]
    /\ pc' = [pc EXCEPT ![p] = "maudit"]
    /\ UNCHANGED <<gbal, utx, gtx, audit, gone, members, locks, op, rd,
                   result, ret, opCount>>

\* plannedExpenseRepository.MarkAsBought / MarkAsCancelled: UPDATE ... WHERE
\* id = ?, which waits for the row lock
RepoMark(p) ==
    /\ pc[p] = "mark"
    /\ locks[op[p].exp] = NoProc
    /\ exp' = [exp EXCEPT ![op[p].exp] = MarkedRow(op[p], @)]
    /\ wrote' = [wrote EXCEPT ![p] = TRUE]
    /\ pc' = [pc EXCEPT ![p] = "maudit"]
    /\ UNCHANGED <<ubal, gbal, utx, gtx, audit, gone, members, locks, op, rd,
                   result, ret, opCount>>

\* the repository UPDATE returns an error
RepoMarkFails(p) ==
    /\ pc[p] = "mark"
    /\ Finish(p, "SERVER_ERROR", NoTx)
    /\ UNCHANGED <<dbvars, locks, op, wrote, opCount>>

MarkAuditRecord(o) ==
    AuditRow("planned_expense", <<o.exp>>,
             IF o.kind = "markBought" THEN "mark_as_bought"
             ELSE "mark_as_cancelled",
             o.user,
             IF o.kind = "markBought" THEN NONE ELSE ExpenseGroup(o.exp))

\* MarkAsCancelled returns nil; MarkAsBought goes on to fetch the expense
AfterMarkAudit(p) ==
    IF op[p].kind = "markBought"
    THEN Proceed(p, "mreadback", NoRd)
    ELSE Finish(p, "OK", NoTx)

\* s.auditRepo.Create(auditLog) after the mark
MarkAudit(p) ==
    /\ pc[p] = "maudit"
    /\ audit' = audit (+) SetToBag({MarkAuditRecord(op[p])})
    /\ AfterMarkAudit(p)
    /\ UNCHANGED <<ubal, gbal, utx, gtx, exp, gone, members, locks, op, wrote,
                   opCount>>

\* that Create fails: the error is logged and the handler goes on
MarkAuditFails(p) ==
    /\ pc[p] = "maudit"
    /\ AfterMarkAudit(p)
    /\ UNCHANGED <<dbvars, locks, op, wrote, opCount>>

\* MarkAsBought: s.expenseRepo.FindByID of the updated expense
FindUpdated(p) ==
    /\ pc[p] = "mreadback"
    /\ \/ Finish(p, "OK", NoTx)
       \/ Finish(p, "SERVER_ERROR", NoTx)
    /\ UNCHANGED <<dbvars, locks, op, wrote, opCount>>

\* UpdateExpense up to the repository call: s.expenseRepo.FindByID returns
\* the whole planned_expenses row, and the permission check; there is no
\* status check
UpdateReqs ==
    {[kind |-> "updateExpense", user |-> u, group |-> NONE, type |-> NONE,
      amt |-> 0, src |-> NONE, exp |-> e] :
        u \in Users, e \in Expenses}

UpdateCall(p, o) ==
    /\ Begin(p, o)
    /\ IF /\ ExpenseUser(o.exp) # o.user
          /\ \/ ExpenseGroup(o.exp) = NONE
             \/ MemberStatus(o.user, ExpenseGroup(o.exp)) # "active"
       THEN Finish(p, "FORBIDDEN", NoTx)
       ELSE Proceed(p, "eupdate", [NoRd EXCEPT !.row = exp[o.exp]])

UpdateExpense(p) == \E o \in UpdateReqs : UpdateCall(p, o)

\* s.expenseRepo.Update(expense): r.db.Save(expense), an UPDATE of every
\* column of the row with the values FindByID returned (the descriptive
\* columns the request changes are not part of the model's row), which
\* waits for the row lock
ExpenseUpdate(p) ==
    /\ pc[p] = "eupdate"
    /\ locks[op[p].exp] = NoProc
    /\ exp' = [exp EXCEPT ![op[p].exp] = rd[p].row]
    /\ wrote' = [wrote EXCEPT ![p] = TRUE]
    /\ pc' = [pc EXCEPT ![p] = "eaudit"]
    /\ UNCHANGED <<ubal, gbal, utx, gtx, audit, gone, members, locks, op, rd,
                   result, ret, opCount>>

\* that Update returns an error
ExpenseUpdateFails(p) ==
    /\ pc[p] = "eupdate"
    /\ Finish(p, "SERVER_ERROR", NoTx)
    /\ UNCHANGED <<dbvars, locks, op, wrote, opCount>>

\* s.auditRepo.Create(auditLog) when the request changed a field
UpdateAudit(p) ==
    /\ pc[p] = "eaudit"
    /\ audit' = audit (+) SetToBag({AuditRow("planned_expense", <<op[p].exp>>,
                                             "update", op[p].user,
                                             ExpenseGroup(op[p].exp))})
    /\ Proceed(p, "mreadback", NoRd)
    /\ UNCHANGED <<ubal, gbal, utx, gtx, exp, gone, members, locks, op, wrote,
                   opCount>>

\* the request changed no field, or that Create fails and is logged
UpdateAuditSkipped(p) ==
    /\ pc[p] = "eaudit"
    /\ Proceed(p, "mreadback", NoRd)
    /\ UNCHANGED <<dbvars, locks, op, wrote, opCount>>

\* ------------------------------------------------------------- userService
AccountReqs ==
    {[kind |-> k, user |-> u, group |-> NONE, type |-> NONE, amt |-> 0,
      src |-> NONE, exp |-> NONE] :
        k \in {"updateProfile", "changePassword"}, u \in Users}

\* UpdateProfile up to the repository call: s.userRepo.FindByID(userID)
\* returns the whole users row, Balance included; FindByEmail may find the
\* new email taken by another user
UpdateProfileCall(p, o) ==
    /\ Begin(p, o)
    /\ \E taken \in BOOLEAN :
          IF taken
          THEN Finish(p, "EMAIL_EXISTS", NoTx)
          ELSE Proceed(p, "profile", [NoRd EXCEPT !.ubal = ubal[o.user]])

UpdateProfile(p) ==
    \E o \in {r \in AccountReqs : r.kind = "updateProfile"} :
        UpdateProfileCall(p, o)

\* ChangePassword up to the repository call: s.userRepo.FindByID(userID)
\* and utils.CheckPassword of the old password
ChangePasswordCall(p, o) ==
    /\ Begin(p, o)
    /\ \E matches \in BOOLEAN :
          IF ~matches
          THEN Finish(p, "INVALID_PASSWORD", NoTx)
          ELSE Proceed(p, "profile", [NoRd EXCEPT !.ubal = ubal[o.user]])

ChangePassword(p) ==
    \E o \in {r \in AccountReqs : r.kind = "changePassword"} :
        ChangePasswordCall(p, o)

\* a repository Update that writes only the columns the handler changed
UserUpdateOmitsBalance(p) ==
    /\ pc[p] = "profile"
    /\ locks[op[p].user] = NoProc
    /\ Finish(p, "OK", NoTx)
    /\ UNCHANGED <<dbvars, locks, op, wrote, opCount>>

\* s.userRepo.Update(user): r.db.Save(user), an UPDATE of every column of
\* the row with the values FindByID returned, which waits for the row lock
UserUpdate(p) ==
    /\ pc[p] = "profile"
    /\ locks[op[p].user] = NoProc
    /\ ubal' = [ubal EXCEPT ![op[p].user] = rd[p].ubal]
    /\ Finish(p, "OK", NoTx)
    /\ UNCHANGED <<gbal, utx, gtx, audit, exp, gone, members, locks, op,
                   wrote, opCount>>

\* that Update returns an error
UserUpdateFails(p) ==
    /\ pc[p] = "profile"
    /\ Finish(p, "SERVER_ERROR", NoTx)
    /\ UNCHANGED <<dbvars, locks, op, wrote, opCount>>

\* ------------------------------------------------------------ groupService
\* user_groups.role: the creator of g1 is its manager
MemberRole(u, g) == IF u = "u1" /\ g = "g1" THEN "manager" ELSE "member"

DeleteReqs ==
    {[kind |-> "deleteGroup", user |-> u, group |-> g, type |-> NONE,
      amt |-> 0, src |-> NONE, exp |-> NONE] :
        u \in Users \cup {"u2"}, g \in Groups}

\* DeleteGroup up to the repository call: the manager check
DeleteCall(p, o) ==
    /\ Begin(p, o)
    /\ IF NotMember(o) \/ MemberRole(o.user, o.group) # "manager"
       THEN Finish(p, "FORBIDDEN", NoTx)
       ELSE Proceed(p, "delete", NoRd)

DeleteGroup(p) == \E o \in DeleteReqs : DeleteCall(p, o)

\* a delete that takes the transactions of the group with it
GroupDeleteCascades(p) ==
    /\ pc[p] = "delete"
    /\ locks[op[p].group] = NoProc
    /\ gone' = gone \cup {op[p].group}
    /\ gtx' = [gtx EXCEPT ![op[p].group] = <<>>]
    /\ wrote' = [wrote EXCEPT ![p] = TRUE]
    /\ pc' = [pc EXCEPT ![p] = "daudit"]
    /\ UNCHANGED <<ubal, gbal, utx, audit, exp, members, locks, op, rd,
                   result, ret, opCount>>

\* s.groupRepo.Delete(groupID): groups has a DeletedAt column, so the
\* DELETE is an UPDATE of deleted_at on the groups row and nothing else
GroupDelete(p) ==
    /\ pc[p] = "delete"
    /\ locks[op[p].group] = NoProc
    /\ gone' = gone \cup {op[p].group}
    /\ wrote' = [wrote EXCEPT ![p] = TRUE]
    /\ pc' = [pc EXCEPT ![p] = "daudit"]
    /\ UNCHANGED <<ubal, gbal, utx, gtx, audit, exp, members, locks, op, rd,
                   result, ret, opCount>>

\* that Delete returns an error
GroupDeleteFails(p) ==
    /\ pc[p] = "delete"
    /\ Finish(p, "SERVER_ERROR", NoTx)
    /\ UNCHANGED <<dbvars, locks, op, wrote, opCount>>

\* s.auditRepo.Create(auditLog) after the delete
DeleteAudit(p) ==
    /\ pc[p] = "daudit"
    /\ audit' = audit (+) SetToBag({AuditRow("group", <<op[p].group>>,
                                             "delete", op[p].user,
                                             op[p].group)})
    /\ Finish(p, "OK", NoTx)
    /\ UNCHANGED <<ubal, gbal, utx, gtx, exp, gone, members, locks, op, wrote,
                   opCount>>

\* that Create fails: the error is logged and DeleteGroup returns nil
DeleteAuditFails(p) ==
    /\ pc[p] = "daudit"
    /\ Finish(p, "OK", NoTx)
    /\ UNCHANGED <<dbvars, locks, op, wrote, opCount>>

\* ------------------------------------------------------------------- Next
\* the statements of a ledger handler after its first one
LedgerStep(p) ==
    \/ FindOwner(p)
    \/ FindGroup(p)
    \/ TxSave(p)
    \/ TxSaveSecond(p)
    \/ TxCommit(p)
    \/ TxFails(p)
    \/ FindCreated(p)
    \/ FindCreatedFails(p)

\* one statement of one request
Step(p) ==
    \/ CreatePersonalTransaction(p)
    \/ CreateGroupTransaction(p)
    \/ TransferToGroup(p)
    \/ PayGroupExpense(p)
    \/ RecordExternalIncome(p)
    \/ FindOwner(p)
    \/ FindGroup(p)
    \/ TxSave(p)
    \/ TxSaveSecond(p)
    \/ TxCommit(p)
    \/ TxFails(p)
    \/ FindCreated(p)
    \/ FindCreatedFails(p)
    \/ MarkAsBought(p)
    \/ MarkAsCancelled(p)
    \/ RepoMark(p)
    \/ RepoMarkFails(p)
    \/ MarkAudit(p)
    \/ MarkAuditFails(p)
    \/ FindUpdated(p)

Next == \E p \in Procs : Step(p)

Spec == Init /\ [][Next]_vars

\* =================================================================== claims
RECURSIVE SignedSum(_)
SignedSum(log) ==
    IF log = <<>> THEN 0
    ELSE SignedSum(SubSeq(log, 1, Len(log) - 1))
         + (IF log[Len(log)].type = "CREDIT" THEN log[Len(log)].amount
            ELSE 0 - log[Len(log)].amount)

\* transactionRepository.GetBalance: SUM(CASE WHEN type = 'CREDIT' THEN
\* amount ELSE -amount END) over the owner's rows
GetBalance(ownerType, ownerId) ==
    IF ownerType = "USER" THEN SignedSum(utx[ownerId])
    ELSE SignedSum(gtx[ownerId])

Quiescent == \A p \in Procs : pc[p] \in {"idle", "done"}

OwnerLog(o) == IF o.kind = "personal" THEN utx[o.user] ELSE gtx[o.group]
StoredBalance(o) ==
    IF o.kind \in {"personal", "transfer"} THEN ubal[o.user]
    ELSE gbal[o.group]
ReadBalance(p) ==
    IF op[p].kind \in {"personal"} THEN rd[p].ubal ELSE rd[p].gbal

\* p takes the first step of a new request
Started(p) ==
    /\ opCount' = opCount + 1
    /\ <<pc[p], op[p], result[p]>> # <<pc'[p], op'[p], result'[p]>>

\* tx.Commit() of p succeeds in this step
Commits(p) == pc[p] = "commit" /\ pc'[p] = "readback"

\* C1: between completed operations the stored balance of every owner is
\* the signed sum of its transaction rows
C1_BalanceSum ==
    Quiescent =>
        /\ \A u \in Users : ubal[u] = GetBalance("USER", u)
        /\ \A g \in Groups : gbal[g] = GetBalance("GROUP", g)

\* C2: of two concurrent debits of A admitted against a balance of 1.5A the
\* second never commits once the first has taken the balance to 0.5A
C2_ConcurrentDebits ==
    [][\A q \in Procs :
         ~ /\ Commits(q)
           /\ op[q].kind \in {"personal", "group"}
           /\ op[q].type = "DEBIT"
           /\ 2 * ReadBalance(q) = 3 * op[q].amt
           /\ 2 * StoredBalance(op[q]) = op[q].amt
           /\ OwnerLog(op[q]) # <<>>
           /\ LET last == OwnerLog(op[q])[Len(OwnerLog(op[q]))] IN
              /\ last.type = "DEBIT"
              /\ last.amount = op[q].amt
              /\ 2 * last.balance = op[q].amt]_vars

\* the step in which p compares a debit with the balance it has just read
BalanceCheckStep(p) ==
    \/ /\ Started(p)
       /\ op'[p].kind \in {"personal", "group"}
       /\ op'[p].type = "DEBIT"
       /\ op'[p].kind = "group" => ~NotMember(op'[p])
    \/ /\ Started(p)
       /\ op'[p].kind = "transfer"
       /\ ~NotMember(op'[p])
    \/ /\ op[p].kind = "pay"
       /\ pc[p] = "read"
       /\ pc'[p] # "read"

\* C3: a debit greater than the owner's current balance is rejected with
\* INSUFFICIENT_BALANCE and writes nothing
C3_DebitRejected ==
    [][\A p \in Procs :
         (BalanceCheckStep(p) /\ op'[p].amt > StoredBalance(op'[p])) =>
             /\ pc'[p] = "done"
             /\ result'[p] = "INSUFFICIENT_BALANCE"
             /\ ~wrote'[p]
             /\ UNCHANGED dbvars]_vars

C3_Witness ==
    \E p \in Procs :
        /\ pc[p] = "done"
        /\ result[p] = "INSUFFICIENT_BALANCE"
        /\ op[p].kind = "transfer"
        /\ ubal[op[p].user] = 2
        /\ op[p].amt = 3

\* C4: a request that fails between its transaction insert and its commit
\* has changed nothing: the failing step leaves every table as it was, no
\* earlier step of the request wrote, and no table changes except in a
\* successful commit (or a planned-expense mark)
C4_Atomicity ==
    [][/\ \A p \in Procs :
            (pc[p] \in {"save", "save2", "commit"} /\ pc'[p] = "done") =>
                /\ result'[p] = "SERVER_ERROR"
                /\ ~wrote'[p]
                /\ UNCHANGED dbvars
                /\ \A r \in Rows : locks'[r] # p
       /\ dbvars' # dbvars =>
            \E p \in Procs :
                \/ Commits(p)
                \/ pc[p] \in {"mark", "maudit"} /\ pc'[p] # pc[p]]_vars

C4_Witness ==
    \E p \in Procs :
        /\ pc[p] = "done"
        /\ result[p] = "SERVER_ERROR"
        /\ ~wrote[p]
        /\ op[p].kind = "pay"
        /\ exp[op[p].exp] = PlannedRow
        /\ gbal[op[p].group] >= op[p].amt
        /\ gtx[op[p].group] # <<>>

\* C5: a ledger operation that returns an error has no committed effect
C5_ErrorMeansNoEffect ==
    \A p \in Procs :
        (pc[p] = "done" /\ op[p].kind \in LedgerKinds /\ result[p] # "OK")
            => ~wrote[p]

Last(log) == log[Len(log)]

\* rows of a log that came from a transfer of user u into group g
RECURSIVE CountTransfers(_, _, _)
CountTransfers(log, u, g) ==
    IF log = <<>> THEN 0
    ELSE CountTransfers(SubSeq(log, 1, Len(log) - 1), u, g)
         + (IF /\ Last(log).source \in {"group_transfer", "member"}
               /\ Last(log).userId = u
               /\ Last(log).groupId = g
            THEN 1 ELSE 0)

\* every transfer DEBIT of a user has its CREDIT in the group, and back
PairedTransfers ==
    \A u \in Users, g \in Groups :
        CountTransfers(utx[u], u, g) = CountTransfers(gtx[g], u, g)

\* C6: a TransferToGroup that commits takes the amount off the user's
\* balance and puts it on the group's, appends exactly one DEBIT row to the
\* user (naming the group) and one CREDIT row to the group (naming the
\* payer), both of the amount; the two rows only ever appear together
C6_TransferToGroup ==
    [][/\ \A p \in Procs :
            (Commits(p) /\ op[p].kind = "transfer") =>
                LET o == op[p]
                    u == op[p].user
                    g == op[p].group
                IN  /\ ubal'[u] = ubal[u] - o.amt
                    /\ gbal'[g] = gbal[g] + o.amt
                    /\ Len(utx'[u]) = Len(utx[u]) + 1
                    /\ SubSeq(utx'[u], 1, Len(utx[u])) = utx[u]
                    /\ Last(utx'[u]).type = "DEBIT"
                    /\ Last(utx'[u]).amount = o.amt
                    /\ Last(utx'[u]).groupId = g
                    /\ Len(gtx'[g]) = Len(gtx[g]) + 1
                    /\ SubSeq(gtx'[g], 1, Len(gtx[g])) = gtx[g]
                    /\ Last(gtx'[g]).type = "CREDIT"
                    /\ Last(gtx'[g]).amount = o.amt
                    /\ Last(gtx'[g]).paidBy = u
       /\ PairedTransfers']_vars

\* C7: a PayGroupExpense that commits takes the price paid off the group's
\* balance, makes the expense a bought one that carries the price, the payer
\* and the time, and appends one DEBIT row that names the expense and the
\* payer; asked again for an expense that is bought it answers
\* INVALID_STATUS and writes nothing
C7_PayGroupExpense ==
    [][\A p \in Procs :
        /\ (Commits(p) /\ op[p].kind = "pay") =>
                LET o == op[p]
                    g == op[p].group
                IN  /\ gbal'[g] = gbal[g] - o.amt
                    /\ exp'[o.exp] = [status |-> "bought", actual |-> o.amt,
                                      paidBy |-> o.user, paidAt |-> TRUE]
                    /\ Len(gtx'[g]) = Len(gtx[g]) + 1
                    /\ SubSeq(gtx'[g], 1, Len(gtx[g])) = gtx[g]
                    /\ Last(gtx'[g]).type = "DEBIT"
                    /\ Last(gtx'[g]).amount = o.amt
                    /\ Last(gtx'[g]).plannedExpenseId = o.exp
                    /\ Last(gtx'[g]).paidBy = o.user
                    /\ UNCHANGED <<ubal, utx>>
        /\ (/\ Started(p)
            /\ op'[p].kind = "pay"
            /\ ~NotMember(op'[p])
            /\ ExpenseGroup(op'[p].exp) = op'[p].group
            /\ exp[op'[p].exp].status = "bought") =>
                /\ pc'[p] = "done"
                /\ result'[p] = "INVALID_STATUS"
                /\ ~wrote'[p]
                /\ UNCHANGED dbvars]_vars

\* every row's snapshot is its predecessor's snapshot plus or minus its own
\* amount, from a first balance of 0
ChainedSnapshots(log) ==
    \A i \in 1..Len(log) :
        log[i].balance =
            (IF i = 1 THEN 0 ELSE log[i - 1].balance)
            + (IF log[i].type = "CREDIT" THEN log[i].amount
               ELSE 0 - log[i].amount)

\* C8: the snapshot of a row is the stored balance of its owner when the
\* row is committed, and the snapshots of an owner's consecutive rows differ
\* by the later row's amount
C8_BalanceSnapshot ==
    [][/\ \A p \in Procs :
            Commits(p) =>
                /\ HasUserTx(op[p]) =>
                      Last(utx'[op[p].user]).balance = ubal'[op[p].user]
                /\ HasGroupTx(op[p]) =>
                      Last(gtx'[op[p].group]).balance = gbal'[op[p].group]
       /\ \A u \in Users : ChainedSnapshots(utx'[u])
       /\ \A g \in Groups : ChainedSnapshots(gtx'[g])]_vars

LedgerActions == {"create", "transfer_to_group", "receive_from_member",
                  "mark_as_paid", "record_external_income"}

\* audit rows written by the five ledger handlers
LedgerAuditCount(b) ==
    BagCardinality([r \in {x \in BagToSet(b) : x.action \in LedgerActions}
                        |-> CopiesIn(r, b)])

\* C9: a ledger operation adds its audit rows (two for a transfer, one
\* otherwise) in the step that changes the balance, no other step adds
\* any, and an operation that returns an error has added none
C9_AuditTrail ==
    [][/\ \A p \in Procs :
            Commits(p) =>
                LedgerAuditCount(audit') = LedgerAuditCount(audit)
                    + (IF op[p].kind = "transfer" THEN 2 ELSE 1)
       /\ (\A p \in Procs : ~Commits(p)) =>
                LedgerAuditCount(audit') = LedgerAuditCount(audit)
       /\ \A p \in Procs :
            (/\ pc'[p] = "done"
             /\ op'[p].kind \in LedgerKinds
             /\ result'[p] # "OK") =>
                ~(wrote'[p] /\ LedgerAuditCount(audit') > 0)]_vars

\* C10: bought and cancelled are terminal: an expense that has left planned
\* keeps its status for ever
C10_TerminalStates ==
    [][\A e \in Expenses :
         exp[e].status \in {"bought", "cancelled"} =>
             exp'[e].status = exp[e].status]_vars

\* committed DEBIT rows that carry expense e as planned_expense_id
SettlingRows(e) ==
    UNION {{<<"USER", u, i>> :
                i \in {j \in DOMAIN utx[u] :
                          /\ utx[u][j].type = "DEBIT"
                          /\ utx[u][j].plannedExpenseId = e}} :
           u \in DOMAIN utx}
    \cup
    UNION {{<<"GROUP", g, i>> :
                i \in {j \in DOMAIN gtx[g] :
                          /\ gtx[g][j].type = "DEBIT"
                          /\ gtx[g][j].plannedExpenseId = e}} :
           g \in DOMAIN gtx}

SettlingAmounts(e) ==
    {IF x[1] = "USER" THEN utx[x[2]][x[3]].amount
     ELSE gtx[x[2]][x[3]].amount : x \in SettlingRows(e)}

\* C11: an expense is bought, with price, payer and time, exactly when one
\* committed DEBIT row carries its id, and that row's amount is the price
C11_SettledExpenses ==
    \A e \in DOMAIN exp :
        (/\ exp[e].status = "bought"
         /\ exp[e].paidBy # NONE
         /\ exp[e].paidAt)
        <=> (/\ Cardinality(SettlingRows(e)) = 1
             /\ SettlingAmounts(e) = {exp[e].actual})

\* ============================================== requests that must be refused
\* The same handlers, called by strangers, for a user or an expense that
\* does not exist, for an expense of another group, and with amounts that
\* are not positive where nothing in front of the service filters them
\* (RecordExternalIncome takes a bare int64; the other four get their amount
\* from a DTO bound with gt=0).
NoExpense == "e0"
EdgeExpenses == Expenses \cup {"e3"}
EdgeAmount == 2
IncomeAmounts == {0 - 2, 0, 2}

EdgePersonalReqs ==
    {[kind |-> "personal", user |-> u, group |-> NONE, type |-> t,
      amt |-> EdgeAmount, src |-> "salary", exp |-> NONE] :
        u \in Users \cup {Ghost}, t \in {"CREDIT", "DEBIT"}}
EdgeGroupReqs ==
    {[kind |-> "group", user |-> u, group |-> g, type |-> t,
      amt |-> EdgeAmount, src |-> "salary", exp |-> NONE] :
        u \in Users \cup Strangers, g \in Groups, t \in {"CREDIT", "DEBIT"}}
EdgeTransferReqs ==
    {[kind |-> "transfer", user |-> u, group |-> g, type |-> "DEBIT",
      amt |-> EdgeAmount, src |-> "group_transfer", exp |-> NONE] :
        u \in Users \cup Strangers \cup {Ghost}, g \in Groups}
EdgePayReqs ==
    {[kind |-> "pay", user |-> u, group |-> g, type |-> "DEBIT",
      amt |-> EdgeAmount, src |-> "expense_payment", exp |-> e] :
        u \in Users \cup Strangers, g \in Groups,
        e \in EdgeExpenses \cup {NoExpense}}
EdgeIncomeReqs ==
    {[kind |-> "income", user |-> u, group |-> g, type |-> "CREDIT",
      amt |-> a, src |-> "gift", exp |-> NONE] :
        u \in Users \cup Strangers, g \in Groups, a \in IncomeAmounts}
EdgeCancelReqs == {o \in MarkCancelledReqs : o.exp = "e1"}

EdgeInit ==
    /\ ubal = [u \in Users |-> 0]
    /\ gbal = [g \in Groups |-> 0]
    /\ utx = [u \in Users |-> <<>>]
    /\ gtx = [g \in Groups |-> <<>>]
    /\ audit = EmptyBag
    /\ exp = [e \in EdgeExpenses |-> PlannedRow]
    /\ gone = {}
    /\ members = LedgerMembers
    /\ locks = [r \in Rows \cup EdgeExpenses |-> NoProc]
    /\ pc = [p \in Procs |-> "idle"]
    /\ op = [p \in Procs |-> NoOp]
    /\ rd = [p \in Procs |-> NoRd]
    /\ result = [p \in Procs |-> NONE]
    /\ ret = [p \in Procs |-> NoTx]
    /\ wrote = [p \in Procs |-> FALSE]
    /\ opCount = 0

EdgeCalls(p) ==
    \/ \E o \in EdgePersonalReqs : PersonalCall(p, o)
    \/ \E o \in EdgeGroupReqs : GroupCall(p, o)
    \/ \E o \in EdgeTransferReqs : TransferCall(p, o)
    \/ \E o \in EdgePayReqs : PayCall(p, o)
    \/ \E o \in EdgeIncomeReqs : IncomeCall(p, o)
    \/ \E o \in EdgeCancelReqs : CancelCall(p, o)

EdgeNext ==
    \E p \in Procs :
        \/ EdgeCalls(p)
        \/ LedgerStep(p)
        \/ RepoMark(p)
        \/ RepoMarkFails(p)
        \/ MarkAudit(p)
        \/ MarkAuditFails(p)

EdgeSpec == EdgeInit /\ [][EdgeNext]_vars

GroupKinds == {"group", "transfer", "pay", "income"}

\* the request p starts in this step is refused with code, on the spot and
\* without a write
Refused(p, code) ==
    /\ pc'[p] = "done"
    /\ result'[p] = code
    /\ ~wrote'[p]
    /\ UNCHANGED dbvars

\* C12: a group operation called by someone who is not an active member of
\* the group (no row, pending, rejected, left) is refused with FORBIDDEN and
\* no balance, log or planned expense changes
C12_Forbidden ==
    [][\A p \in Procs :
         (/\ Started(p)
          /\ op'[p].kind \in GroupKinds
          /\ MemberStatus(op'[p].user, op'[p].group) # "active")
            => Refused(p, "FORBIDDEN")]_vars

C12_Witness ==
    \E p \in Procs :
        /\ pc[p] = "done"
        /\ result[p] = "FORBIDDEN"
        /\ op[p].kind = "transfer"
        /\ op[p].user = "u4"
        /\ gbal[op[p].group] > 0

\* C13: PayGroupExpense by an active member is refused with
\* EXPENSE_NOT_FOUND when the expense does not exist, with FORBIDDEN when it
\* has no group or another group, with INVALID_STATUS when it is bought or
\* cancelled, and in each case nothing changes
C13_PayRefused ==
    [][\A p \in Procs :
         (/\ Started(p)
          /\ op'[p].kind = "pay"
          /\ MemberStatus(op'[p].user, op'[p].group) = "active") =>
            LET e == op'[p].exp IN
            /\ e \notin DOMAIN exp => Refused(p, "EXPENSE_NOT_FOUND")
            /\ (e \in DOMAIN exp /\ ExpenseGroup(e) # op'[p].group)
                    => Refused(p, "FORBIDDEN")
            /\ (/\ e \in DOMAIN exp
                /\ ExpenseGroup(e) = op'[p].group
                /\ exp[e].status \in {"bought", "cancelled"})
                    => Refused(p, "INVALID_STATUS")]_vars

C13_Witness ==
    \E p \in Procs :
        /\ pc[p] = "done"
        /\ result[p] = "INVALID_STATUS"
        /\ op[p].kind = "pay"
        /\ exp[op[p].exp].status = "cancelled"
        /\ gbal[op[p].group] >= op[p].amt

NotFoundCodes == {"USER_NOT_FOUND", "NOT_FOUND"}

\* C14: CreatePersonalTransaction, and TransferToGroup past its membership
\* check, for a user id that has no users row return a not-found error and
\* write nothing
C14_UnknownUser ==
    \A p \in Procs :
        (/\ pc[p] = "done"
         /\ op[p].kind \in {"personal", "transfer"}
         /\ op[p].user \notin DOMAIN ubal
         /\ op[p].kind = "transfer" => ~NotMember(op[p]))
            => (result[p] \in NotFoundCodes /\ ~wrote[p])

AllAmountsPositive ==
    /\ \A u \in DOMAIN utx : \A i \in DOMAIN utx[u] : utx[u][i].amount > 0
    /\ \A g \in DOMAIN gtx : \A i \in DOMAIN gtx[g] : gtx[g][i].amount > 0

\* C15: a ledger operation called (by someone allowed to) with an amount
\* that is zero or negative is refused with INVALID_AMOUNT and changes
\* nothing, so every committed row has a positive amount
C15_InvalidAmount ==
    [][/\ \A p \in Procs :
            (/\ Started(p)
             /\ op'[p].kind \in LedgerKinds
             /\ op'[p].kind \in GroupKinds => ~NotMember(op'[p])
             /\ op'[p].amt <= 0)
                => Refused(p, "INVALID_AMOUNT")
       /\ AllAmountsPositive']_vars

\* ================================================= one request at a time
\* The same handlers with a single worker: every request runs from its first
\* statement to its return with nothing in between.
OneWorker == "p1"

SeqNext == Step(OneWorker)

SeqSpec == Init /\ [][SeqNext]_vars

Signed(t) == IF t.type = "CREDIT" THEN t.amount ELSE 0 - t.amount

\* C16: run alone, a CREDIT of a on balance b leaves b + a, a DEBIT of
\* a <= b (a = b included) is accepted and leaves b - a, and a DEBIT of
\* a > b is refused before anything is written
C16_BalanceArithmetic ==
    [][\A p \in Procs :
        /\ Commits(p) =>
            /\ HasUserTx(op[p]) =>
                LET u == op[p].user IN
                /\ Last(utx'[u]).amount = op[p].amt
                /\ ubal'[u] = ubal[u] + Signed(Last(utx'[u]))
                /\ ubal'[u] >= 0
            /\ HasGroupTx(op[p]) =>
                LET g == op[p].group IN
                /\ Last(gtx'[g]).amount = op[p].amt
                /\ gbal'[g] = gbal[g] + Signed(Last(gtx'[g]))
                /\ gbal'[g] >= 0
        /\ (/\ Started(p)
            /\ op'[p].kind \in {"personal", "group"}
            /\ op'[p].type = "DEBIT") =>
                IF op'[p].amt > StoredBalance(op'[p])
                THEN Refused(p, "INSUFFICIENT_BALANCE")
                ELSE pc'[p] = "save"]_vars

C16_Witness ==
    \E u \in Users :
        /\ pc[OneWorker] = "done"
        /\ result[OneWorker] = "OK"
        /\ op[OneWorker].kind = "personal"
        /\ op[OneWorker].type = "DEBIT"
        /\ op[OneWorker].user = u
        /\ Len(utx[u]) = 2
        /\ utx[u][1].balance = op[OneWorker].amt
        /\ ubal[u] = 0

\* ============================================================== progress
\* the statements that do not depend on a failure: each request's next
\* statement runs when the row lock it needs is free
Advance(p) ==
    \/ FindOwner(p)
    \/ FindGroup(p)
    \/ TxSave(p)
    \/ TxSaveSecond(p)
    \/ TxCommit(p)
    \/ FindCreated(p)
    \/ RepoMark(p)
    \/ MarkAudit(p)
    \/ FindUpdated(p)

\* the requests that take row locks: the transfers, which lock two rows,
\* and the personal transactions that fund them with every amount, the
\* others with one
LiveReqs(S) == {o \in S : o.amt = EdgeAmount}

LiveCalls(p) ==
    \/ \E o \in PersonalReqs : PersonalCall(p, o)
    \/ \E o \in LiveReqs(GroupReqs) : GroupCall(p, o)
    \/ \E o \in TransferReqs : TransferCall(p, o)
    \/ \E o \in LiveReqs(PayReqs) : PayCall(p, o)
    \/ \E o \in LiveReqs(IncomeReqs) : IncomeCall(p, o)
    \/ \E o \in LiveReqs(MarkBoughtReqs) : MarkBoughtCall(p, o)
    \/ \E o \in MarkCancelledReqs : CancelCall(p, o)

LiveNext ==
    \E p \in Procs :
        \/ LiveCalls(p)
        \/ LedgerStep(p)
        \/ RepoMark(p)
        \/ RepoMarkFails(p)
        \/ MarkAudit(p)
        \/ MarkAuditFails(p)
        \/ FindUpdated(p)

\* goroutines are scheduled and the database grants a free row lock to a
\* statement that waits for it; nothing is assumed about failures
LiveSpec ==
    /\ Init
    /\ [][LiveNext]_vars
    /\ \A p \in Procs : WF_vars(Advance(p))

\* the row whose lock p's next statement needs
WantedRow(p) ==
    IF pc[p] = "save" THEN SaveRows(op[p])[1]
    ELSE IF pc[p] = "save2" THEN SaveRows(op[p])[2]
    ELSE IF pc[p] \in {"mark", "eupdate"} THEN op[p].exp
    ELSE IF pc[p] = "profile" THEN op[p].user
    ELSE IF pc[p] = "delete" THEN op[p].group
    ELSE NONE

\* p's next statement waits for a row lock that q holds
Waits(p, q) ==
    /\ p # q
    /\ WantedRow(p) # NONE
    /\ locks[WantedRow(p)] = q

NoWaitCycle ==
    \A S \in SUBSET Procs :
        S # {} => \E p \in S : \A q \in S : ~Waits(p, q)

AllUsers == Users \cup OtherUsers

OtherPersonalReqs ==
    {[kind |-> "personal", user |-> u, group |-> NONE, type |-> t,
      amt |-> a, src |-> "salary", exp |-> NONE] :
        u \in OtherUsers, t \in {"CREDIT", "DEBIT"}, a \in Amounts}

DisjointInit ==
    /\ ubal = [u \in AllUsers |-> 0]
    /\ gbal = [g \in Groups |-> 0]
    /\ utx = [u \in AllUsers |-> <<>>]
    /\ gtx = [g \in Groups |-> <<>>]
    /\ audit = EmptyBag
    /\ exp = [e \in Expenses |-> PlannedRow]
    /\ gone = {}
    /\ members = LedgerMembers
    /\ locks = [r \in Rows \cup OtherUsers |-> NoProc]
    /\ pc = [p \in Procs |-> "idle"]
    /\ op = [p \in Procs |-> NoOp]
    /\ rd = [p \in Procs |-> NoRd]
    /\ result = [p \in Procs |-> NONE]
    /\ ret = [p \in Procs |-> NoTx]
    /\ wrote = [p \in Procs |-> FALSE]
    /\ opCount = 0

DisjointCalls(p) ==
    \/ CreatePersonalTransaction(p)
    \/ CreateGroupTransaction(p)
    \/ TransferToGroup(p)
    \/ PayGroupExpense(p)
    \/ RecordExternalIncome(p)

OtherCalls(p) == \E o \in OtherPersonalReqs : PersonalCall(p, o)

DisjointNext ==
    \/ DisjointCalls(OneWorker)
    \/ \E p \in Procs \ {OneWorker} : OtherCalls(p)
    \/ \E p \in Procs : LedgerStep(p)

DisjointSpec == DisjointInit /\ [][DisjointNext]_vars

\* the owners a request touches
TouchedUsers(o) == IF HasUserTx(o) THEN {o.user} ELSE {}
TouchedGroups(o) == IF HasGroupTx(o) THEN {o.group} ELSE {}

AdminStep(p) ==
    \/ UpdateProfile(p)
    \/ ChangePassword(p)
    \/ UserUpdate(p)
    \/ UserUpdateFails(p)
    \/ DeleteGroup(p)
    \/ GroupDelete(p)
    \/ GroupDeleteFails(p)
    \/ DeleteAudit(p)
    \/ DeleteAuditFails(p)

AdminNext ==
    \/ Step(OneWorker)
    \/ \E p \in Procs \ {OneWorker} : AdminStep(p)

AdminSpec == Init /\ [][AdminNext]_vars

IsPrefix(s, t) == Len(s) <= Len(t) /\ SubSeq(t, 1, Len(s)) = s

C20_ProfileKeepsBalance ==
    [][\A p \in Procs :
          (pc[p] = "profile" /\ pc'[p] = "done") => ubal' = ubal]_vars

\* a profile request has returned success, no ledger request is in flight,
\* and the stored balance is not the one the last ledger row recorded
C20_StaleBalance ==
    \E p \in Procs :
        /\ pc[p] = "done"
        /\ pc[OneWorker] = "done"
        /\ op[p].kind \in {"updateProfile", "changePassword"}
        /\ result[p] = "OK"
        /\ utx[op[p].user] # <<>>
        /\ ubal[op[p].user] # Last(utx[op[p].user]).balance

\* ========================================================= cancellation
\* the step is one of p's request
StepOf(p) == pc'[p] # pc[p] \/ op'[p] # op[p]

\* C21: no statement of a MarkAsCancelled request, on a personal or a group
\* expense, changes a user balance, a group balance or the transaction log
C21_CancelFrame ==
    [][\A p \in Procs :
          (StepOf(p) /\ op'[p].kind = "markCancelled") =>
              UNCHANGED <<ubal, gbal, utx, gtx>>]_vars

C21_Witness ==
    \E p \in Procs :
        /\ pc[p] = "done"
        /\ op[p].kind = "markCancelled"
        /\ result[p] = "OK"
        /\ exp[op[p].exp].status = "cancelled"
        /\ exp[op[p].exp].actual > 0

\* ====================================================== external income
\* C22: a RecordExternalIncome that commits puts the amount on the group's
\* balance, appends one CREDIT row of the group that carries the given
\* source and the new balance, and changes no user balance or user row; no
\* RecordExternalIncome ever answers INSUFFICIENT_BALANCE
C22_ExternalIncome ==
    [][\A p \in Procs :
        /\ (Commits(p) /\ op[p].kind = "income") =>
               LET o == op[p]
                   g == op[p].group
               IN  /\ gbal'[g] = gbal[g] + o.amt
                   /\ Len(gtx'[g]) = Len(gtx[g]) + 1
                   /\ SubSeq(gtx'[g], 1, Len(gtx[g])) = gtx[g]
                   /\ Last(gtx'[g]).ownerType = "GROUP"
                   /\ Last(gtx'[g]).ownerId = g
                   /\ Last(gtx'[g]).type = "CREDIT"
                   /\ Last(gtx'[g]).amount = o.amt
                   /\ Last(gtx'[g]).source = o.src
                   /\ Last(gtx'[g]).balance = gbal'[g]
                   /\ ubal' = ubal
                   /\ utx' = utx
        /\ (op'[p].kind = "income") => result'[p] # "INSUFFICIENT_BALANCE"]_vars

\* ============================================================ responses
\* the records in the response of a request: the handlers return one
\* *dto.TransactionResponse, mapped from one transactions row
Returned(p) == IF ret[p] = NoTx THEN {} ELSE {ret[p]}

\* C23: a TransferToGroup that succeeds hands its caller both records it
\* created, the DEBIT of the user and the CREDIT of the group
C23_TransferReturnsBoth ==
    \A p \in Procs :
        (pc[p] = "done" /\ op[p].kind = "transfer" /\ result[p] = "OK") =>
            /\ \E d \in Returned(p) :
                  /\ d.ownerType = "USER"
                  /\ d.ownerId = op[p].user
                  /\ d.type = "DEBIT"
            /\ \E c \in Returned(p) :
                  /\ c.ownerType = "GROUP"
                  /\ c.ownerId = op[p].group
                  /\ c.type = "CREDIT"

\* ==================================================== concurrent payments
\* Both workers pay planned expenses of a group whose balance covers two
\* payments: the group has received one external income of that much.
FundReq ==
    [kind |-> "income", user |-> "u1", group |-> "g1", type |-> "CREDIT",
     amt |-> 2 * EdgeAmount, src |-> "gift", exp |-> NONE]

PayInit ==
    /\ ubal = [u \in Users |-> 0]
    /\ gbal = [g \in Groups |-> FundReq.amt]
    /\ utx = [u \in Users |-> <<>>]
    /\ gtx = [g \in Groups |-> <<GroupTx(FundReq, NoRd)>>]
    /\ audit = SetToBag({AuditRow("transaction", <<"GROUP", "g1", 1>>,
                                  "record_external_income", "u1", "g1")})
    /\ exp = [e \in Expenses |-> PlannedRow]
    /\ gone = {}
    /\ members = LedgerMembers
    /\ locks = [r \in Rows |-> NoProc]
    /\ pc = [p \in Procs |-> "idle"]
    /\ op = [p \in Procs |-> NoOp]
    /\ rd = [p \in Procs |-> NoRd]
    /\ result = [p \in Procs |-> NONE]
    /\ ret = [p \in Procs |-> NoTx]
    /\ wrote = [p \in Procs |-> FALSE]
    /\ opCount = 0

PayNext ==
    \E p \in Procs :
        \/ \E o \in LiveReqs(PayReqs) : PayCall(p, o)
        \/ FindOwner(p)
        \/ TxSave(p)
        \/ TxSaveSecond(p)
        \/ TxCommit(p)
        \/ TxFails(p)
        \/ FindCreated(p)
        \/ FindCreatedFails(p)

PaySpec == PayInit /\ [][PayNext]_vars

\* C24: of the PayGroupExpense requests for one planned expense, run
\* together or one after the other, at most one commits: at most one
\* transaction row carries the expense as planned_expense_id
C24_PaidOnce ==
    \A e \in DOMAIN exp : Cardinality(SettlingRows(e)) <= 1

\* ================================================== non-negative balances
\* C25: the stored balance of every user and every group is never negative
C25_NonNegative ==
    /\ \A u \in DOMAIN ubal : ubal[u] >= 0
    /\ \A g \in DOMAIN gbal : gbal[g] >= 0

\* two debits that each passed the check against the same balance have
\* committed: the rows of the owner add up to less than nothing
C25_Witness ==
    /\ Quiescent
    /\ \/ \E u \in DOMAIN utx : SignedSum(utx[u]) < 0
       \/ \E g \in DOMAIN gtx : SignedSum(gtx[g]) < 0

\* ============================================================== reports
\* reportService.getBalanceBefore: SUM(CASE WHEN type = 'CREDIT' THEN amount
\* ELSE -amount END) over the rows of the owner created before the cut-off,
\* here the first k rows of its log
getBalanceBefore(log, k) == SignedSum(SubSeq(log, 1, k))

\* C26: between completed operations, for every owner and every cut-off,
\* the starting balance the report derives is the snapshot stored on the
\* last row before the cut-off, and 0 when there is none
C26_ReportBalance ==
    Quiescent =>
        /\ \A u \in DOMAIN utx : \A k \in 0..Len(utx[u]) :
              getBalanceBefore(utx[u], k) =
                  IF k = 0 THEN 0 ELSE utx[u][k].balance
        /\ \A g \in DOMAIN gtx : \A k \in 0..Len(gtx[g]) :
              getBalanceBefore(gtx[g], k) =
                  IF k = 0 THEN 0 ELSE gtx[g][k].balance

\* ====================================================== expense updates
\* Worker p1 serves the ledger and planned-expense requests, worker p2 the
\* UpdateExpense requests, interleaved with them at every statement.
UpdateStep(p) ==
    \/ UpdateExpense(p)
    \/ ExpenseUpdate(p)
    \/ ExpenseUpdateFails(p)
    \/ UpdateAudit(p)
    \/ UpdateAuditSkipped(p)
    \/ FindUpdated(p)

ExpenseNext ==
    \/ Step(OneWorker)
    \/ \E p \in Procs \ {OneWorker} : UpdateStep(p)

ExpenseSpec == Init /\ [][ExpenseNext]_vars

\* C27: no statement of an UpdateExpense request changes the status, the
\* actual price, the payer or the payment time of a planned expense,
\* whatever runs beside it
C27_UpdateFrame ==
    [][\A p \in Procs :
          (StepOf(p) /\ op'[p].kind = "updateExpense") =>
              \A e \in DOMAIN exp :
                  /\ exp'[e].status = exp[e].status
                  /\ exp'[e].actual = exp[e].actual
                  /\ exp'[e].paidBy = exp[e].paidBy
                  /\ exp'[e].paidAt = exp[e].paidAt]_vars

\* a payment of an expense has committed and returned, an UpdateExpense of
\* the same expense has returned success, and the expense is planned again
C27_Reverted ==
    \E p \in Procs :
        /\ pc[p] = "done"
        /\ op[p].kind = "updateExpense"
        /\ result[p] = "OK"
        /\ pc[OneWorker] = "done"
        /\ op[OneWorker].kind = "pay"
        /\ result[OneWorker] = "OK"
        /\ op[OneWorker].exp = op[p].exp
        /\ exp[op[p].exp].status = "planned"

\* ============================================ transactions naming an expense
\* CreateGroupTransaction requests that carry a planned_expense_id, beside
\* the PayGroupExpense requests
LinkedReqs ==
    {[kind |-> "group", user |-> u, group |-> g, type |-> t,
      amt |-> a, src |-> "salary", exp |-> e] :
        u \in Users, g \in Groups, t \in {"CREDIT", "DEBIT"}, a \in Amounts,
        e \in Expenses}

LinkNext ==
    \E p \in Procs :
        \/ \E o \in LinkedReqs : GroupCall(p, o)
        \/ PayGroupExpense(p)
        \/ FindOwner(p)
        \/ TxSave(p)
        \/ TxSaveSecond(p)
        \/ TxCommit(p)
        \/ TxFails(p)
        \/ FindCreated(p)
        \/ FindCreatedFails(p)

LinkSpec == Init /\ [][LinkNext]_vars

\* every committed transaction row
AllRows ==
    UNION {{utx[u][i] : i \in DOMAIN utx[u]} : u \in DOMAIN utx}
    \cup UNION {{gtx[g][i] : i \in DOMAIN gtx[g]} : g \in DOMAIN gtx}

\* C28: every transaction row that names a planned expense is owned by the
\* group of that expense, and the expense is bought at the amount of the row
C28_LinkedRows ==
    \A t \in AllRows :
        t.plannedExpenseId # NONE =>
            /\ t.ownerType = "GROUP"
            /\ t.ownerId = ExpenseGroup(t.plannedExpenseId)
            /\ exp[t.plannedExpenseId].status = "bought"
            /\ exp[t.plannedExpenseId].actual = t.amount

\* ============================================================== listings
\* the committed transactions rows, by the owner that holds them and their
\* place in its log
AllRowIds ==
    UNION {{<<"USER", u, i>> : i \in DOMAIN utx[u]} : u \in DOMAIN utx}
    \cup UNION {{<<"GROUP", g, i>> : i \in DOMAIN gtx[g]} : g \in DOMAIN gtx}

RowAt(x) == IF x[1] = "USER" THEN utx[x[2]][x[3]] ELSE gtx[x[2]][x[3]]

\* transactionRepository.FindByUser: WHERE user_id = ? (a page that holds
\* every row)
GetPersonalTransactions(u) == {x \in AllRowIds : RowAt(x).userId = u}

\* transactionRepository.FindByGroup: WHERE group_id = ?, after the
\* membership check
GetGroupTransactions(u, g) ==
    IF MemberStatus(u, g) # "active" THEN {}
    ELSE {x \in AllRowIds : RowAt(x).groupId = g}

\* C29: the personal listing of a user holds exactly the rows owned by that
\* user, and the group listing an active member gets holds exactly the rows
\* owned by the group
C29_Listings ==
    /\ \A u \in DOMAIN utx :
          GetPersonalTransactions(u) =
              {x \in AllRowIds : x[1] = "USER" /\ x[2] = u}
    /\ \A g \in DOMAIN gtx : \A u \in DOMAIN utx :
          MemberStatus(u, g) = "active" =>
              GetGroupTransactions(u, g) =
                  {x \in AllRowIds : x[1] = "GROUP" /\ x[2] = g}

\* ========================================================= GetTransaction
\* the users that may ask for a transaction
Readers == AllUsers \cup Strangers

\* a lookup that lets every user read the rows of a group
GetTransactionAnyGroup(u, x) ==
    IF RowAt(x).ownerType = "USER" /\ RowAt(x).userId # u
    THEN "FORBIDDEN" ELSE "OK"

\* GetTransaction after s.transactionRepo.FindByID found the row
GetTransaction(u, x) ==
    IF RowAt(x).ownerType = "USER" /\ RowAt(x).userId # u
    THEN "FORBIDDEN"
    ELSE IF /\ RowAt(x).ownerType = "GROUP"
            /\ RowAt(x).groupId # NONE
            /\ MemberStatus(u, RowAt(x).groupId) # "active"
    THEN "FORBIDDEN"
    ELSE "OK"

\* C30: GetTransaction hands a committed row to the user that owns it and
\* to the active members of the group that owns it, and answers FORBIDDEN
\* to every other user
C30_GetTransaction ==
    \A u \in Readers : \A x \in AllRowIds :
        GetTransaction(u, x) =
            IF \/ x[1] = "USER" /\ x[2] = u
               \/ x[1] = "GROUP" /\ MemberStatus(u, x[2]) = "active"
            THEN "OK" ELSE "FORBIDDEN"

C30_Witness ==
    /\ \E u \in OtherUsers : utx[u] # <<>>
    /\ \E u \in Users : \E i \in DOMAIN utx[u] : utx[u][i].groupId # NONE
    /\ \E g \in Groups : gtx[g] # <<>>


\* ======================================================== group membership
\* Group g1 after CreateGroup by u1: the creator's row is the only
\* user_groups row. Workers serve InviteMember, AcceptInvitation,
\* RejectInvitation, UpdateMemberRole, RemoveMember, LeaveGroup and
\* GetPendingInvitations; every repository call is a statement of its own
\* (no handler opens a transaction), so the calls of two requests interleave.
MemberUsers == {"u1", "u2"}

\* a phone number no users row carries
NoPhone == "nobody"

Roles == {"member", "manager"}

\* uuids BeforeCreate may draw for user_groups rows; only their order
\* (First orders by primary key) and their equality are modelled
UserGroupIds == 1 .. MaxOps

\* a uuid in a request path: the id of a group or the id of a user_groups row
GroupUuid(g) == [group |-> g, row |-> 0]
RowUuid(i) == [group |-> NONE, row |-> i]

InviteReqs ==
    {[kind |-> "invite", user |-> u, group |-> g, target |-> t,
      role |-> r] :
        u \in MemberUsers, g \in Groups, t \in MemberUsers \cup {NoPhone},
        r \in Roles}
AcceptReqs ==
    {[kind |-> k, user |-> u, inv |-> i] :
        k \in {"accept", "reject"}, u \in MemberUsers,
        i \in {GroupUuid(g) : g \in Groups}
              \cup {RowUuid(n) : n \in UserGroupIds}}
RoleReqs ==
    {[kind |-> "updateRole", user |-> u, group |-> g, target |-> t,
      role |-> r] :
        u \in MemberUsers, g \in Groups, t \in MemberUsers, r \in Roles}
RemoveReqs ==
    {[kind |-> "remove", user |-> u, group |-> g, target |-> t] :
        u \in MemberUsers, g \in Groups, t \in MemberUsers}
LeaveReqs ==
    {[kind |-> "leave", user |-> u, group |-> g, target |-> u] :
        u \in MemberUsers, g \in Groups}
PendingReqs == {[kind |-> "pending", user |-> u] : u \in MemberUsers}

\* the zero value of models.UserGroup that First leaves in place when it
\* finds no row
NoRow == [UserGroup(0, NONE, NONE, "", "") EXCEPT !.deleted = TRUE]

\* rows a query sees: gorm adds deleted_at IS NULL
Live == {r \in members : ~r.deleted}

\* groupRepository.FindByUserAndGroup: WHERE user_id = ? AND group_id = ?,
\* First (ORDER BY id LIMIT 1); the row it returns, NoRow with
\* ErrRecordNotFound
FindByUserAndGroup(u, gid) ==
    LET found == {r \in Live : r.user = u /\ r.group = gid.group}
    IN  IF found = {} THEN NoRow
        ELSE CHOOSE r \in found : \A q \in found : r.id <= q.id

\* err != nil || Status != "active" || Role != "manager"
NotManager(u, g) ==
    LET userGroup == FindByUserAndGroup(u, GroupUuid(g))
    IN  userGroup = NoRow \/ userGroup.status # "active"
        \/ userGroup.role # "manager"

\* groupRepository.FindPendingInvitations: WHERE user_id = ? AND status =
\* 'pending'
FindPendingInvitations(u) ==
    {r \in Live : r.user = u /\ r.status = "pending"}

\* ------------------------------------------------------------ InviteMember
\* the manager check on the inviter
InviteCall(p, o) ==
    /\ Begin(p, o)
    /\ IF NotManager(o.user, o.group)
       THEN Finish(p, "FORBIDDEN", NoTx)
       ELSE Proceed(p, "invitee", NoRd)

InviteMember(p) == \E o \in InviteReqs : InviteCall(p, o)

\* userRepo.FindByPhoneNumber, then the check of an existing membership:
\* FindByUserAndGroup never returns a nil pointer, so the check reads the
\* status of the row found (or of the zero value) and refuses only active
\* and pending
FindInvitee(p) ==
    /\ pc[p] = "invitee"
    /\ LET existingMembership ==
               FindByUserAndGroup(op[p].target, GroupUuid(op[p].group))
       IN  IF op[p].target = NoPhone
           THEN Finish(p, "USER_NOT_FOUND", NoTx)
           ELSE IF existingMembership.status = "active"
           THEN Finish(p, "ALREADY_MEMBER", NoTx)
           ELSE IF existingMembership.status = "pending"
           THEN Finish(p, "ALREADY_INVITED", NoTx)
           ELSE Proceed(p, "add", NoRd)
    /\ UNCHANGED <<dbvars, locks, op, wrote, opCount>>

\* s.groupRepo.AddMember(invitation): BeforeCreate draws the id, Create
\* inserts the pending row; or Create returns an error
AddMember(p) ==
    /\ pc[p] = "add"
    /\ \/ \E i \in UserGroupIds \ {r.id : r \in members} :
            LET invitation == UserGroup(i, op[p].target, op[p].group,
                                        op[p].role, "pending")
            IN  /\ members' = members \cup {invitation}
                /\ wrote' = [wrote EXCEPT ![p] = TRUE]
                /\ Proceed(p, "maudit", invitation)
       \/ /\ Finish(p, "SERVER_ERROR", NoTx)
          /\ UNCHANGED <<members, wrote>>
    /\ UNCHANGED <<ubal, gbal, utx, gtx, audit, exp, gone, locks, op,
                   opCount>>

\* -------------------------------------- AcceptInvitation, RejectInvitation
\* the path parameter invitationId is handed to FindByUserAndGroup as the
\* group id; the status check; invitation.Status is set in memory
AcceptCall(p, o) ==
    /\ Begin(p, o)
    /\ LET invitation == FindByUserAndGroup(o.user, o.inv)
       IN  IF invitation = NoRow
           THEN Finish(p, "INVITATION_NOT_FOUND", NoTx)
           ELSE IF invitation.status # "pending"
           THEN Finish(p, "INVALID_INVITATION", NoTx)
           ELSE Proceed(p, "update",
                        [invitation EXCEPT
                            !.status = IF o.kind = "accept" THEN "active"
                                       ELSE "rejected"])

AcceptInvitation(p) == \E o \in AcceptReqs : AcceptCall(p, o)

\* -------------------------------------------------------- UpdateMemberRole
\* the manager check on the caller
RoleCall(p, o) ==
    /\ Begin(p, o)
    /\ IF NotManager(o.user, o.group)
       THEN Finish(p, "FORBIDDEN", NoTx)
       ELSE Proceed(p, "target", NoRd)

UpdateMemberRole(p) == \E o \in RoleReqs : RoleCall(p, o)

\* the target's membership: err != nil || Status != "active";
\* targetUserGroup.Role is set in memory
FindTarget(p) ==
    /\ pc[p] = "target"
    /\ LET targetUserGroup ==
               FindByUserAndGroup(op[p].target, GroupUuid(op[p].group))
       IN  IF targetUserGroup = NoRow \/ targetUserGroup.status # "active"
           THEN Finish(p, "MEMBER_NOT_FOUND", NoTx)
           ELSE Proceed(p, "update",
                        [targetUserGroup EXCEPT !.role = op[p].role])
    /\ UNCHANGED <<dbvars, locks, op, wrote, opCount>>

\* groupRepository.UpdateMember: db.Save(userGroup), an UPDATE of every
\* column of the row with that id. When the row was deleted in between,
\* the UPDATE (deleted_at IS NULL) matches nothing; gorm then either stops
\* there or upserts the row as saved, depending on its version. Or Save
\* returns an error.
UpdateMember(p) ==
    /\ pc[p] = "update"
    /\ \/ /\ \E r \in Live : r.id = rd[p].id
          /\ members' = {IF r.id = rd[p].id THEN rd[p] ELSE r : r \in members}
          /\ wrote' = [wrote EXCEPT ![p] = TRUE]
          /\ Proceed(p, "maudit", rd[p])
       \/ /\ ~\E r \in Live : r.id = rd[p].id
          /\ \/ members' = {IF r.id = rd[p].id THEN rd[p] ELSE r :
                               r \in members}
             \/ members' = members
          /\ wrote' = [wrote EXCEPT ![p] = TRUE]
          /\ Proceed(p, "maudit", rd[p])
       \/ /\ Finish(p, "SERVER_ERROR", NoTx)
          /\ UNCHANGED <<members, wrote>>
    /\ UNCHANGED <<ubal, gbal, utx, gtx, audit, exp, gone, locks, op,
                   opCount>>

\* ------------------------------------------------------------ RemoveMember
\* the manager check on the caller, and userID == targetUserID
RemoveCall(p, o) ==
    /\ Begin(p, o)
    /\ IF NotManager(o.user, o.group) \/ o.user = o.target
       THEN Finish(p, "FORBIDDEN", NoTx)
       ELSE Proceed(p, "remove", NoRd)

RemoveMember(p) == \E o \in RemoveReqs : RemoveCall(p, o)

\* groupRepository.RemoveMember: db.Delete with user_id = ? AND group_id =
\* ? sets deleted_at on every live row of the pair; or Delete returns an
\* error
RepoRemoveMember(p) ==
    /\ pc[p] = "remove"
    /\ \/ /\ members' =
                {IF r.user = op[p].target /\ r.group = op[p].group
                 THEN [r EXCEPT !.deleted = TRUE] ELSE r : r \in members}
          /\ wrote' = [wrote EXCEPT ![p] = TRUE]
          /\ pc' = [pc EXCEPT ![p] = "maudit"]
          /\ UNCHANGED <<rd, result, ret>>
       \/ /\ Finish(p, "SERVER_ERROR", NoTx)
          /\ UNCHANGED <<members, wrote>>
    /\ UNCHANGED <<ubal, gbal, utx, gtx, audit, exp, gone, locks, op,
                   opCount>>

\* -------------------------------------------------------------- LeaveGroup
\* the caller's membership: err != nil || Status != "active"; a manager
\* goes on to the count of managers, a member to the delete
LeaveCall(p, o) ==
    /\ Begin(p, o)
    /\ LET userGroup == FindByUserAndGroup(o.user, GroupUuid(o.group))
       IN  IF userGroup = NoRow \/ userGroup.status # "active"
           THEN Finish(p, "NOT_MEMBER", NoTx)
           ELSE IF userGroup.role = "manager"
           THEN Proceed(p, "count", userGroup)
           ELSE Proceed(p, "remove", userGroup)

LeaveGroup(p) == \E o \in LeaveReqs : LeaveCall(p, o)

\* s.groupRepo.FindMembers(groupID) and the loop that counts the rows with
\* status active and role manager; managerCount <= 1
FindMembers(p) ==
    /\ pc[p] = "count"
    /\ LET managerCount ==
               Cardinality({r \in Live : /\ r.group = op[p].group
                                         /\ r.status = "active"
                                         /\ r.role = "manager"})
       IN  IF managerCount <= 1
           THEN Finish(p, "LAST_MANAGER", NoTx)
           ELSE /\ pc' = [pc EXCEPT ![p] = "remove"]
                /\ UNCHANGED <<rd, result, ret>>
    /\ UNCHANGED <<dbvars, locks, op, wrote, opCount>>

\* --------------------------------------------------- GetPendingInvitations
\* the response: the id and the group id of every pending row of the caller
PendingCall(p, o) ==
    /\ Begin(p, o)
    /\ Finish(p, "OK",
              [ownerType |-> NONE,
               invitations |->
                   {[id |-> RowUuid(r.id), groupID |-> GroupUuid(r.group)] :
                       r \in FindPendingInvitations(o.user)}])

GetPendingInvitations(p) == \E o \in PendingReqs : PendingCall(p, o)

\* ----------------------------------------------------------------- audit
\* the audit row each membership handler builds after its write
MemberAuditRow(o, r) ==
    IF o.kind = "invite"
    THEN AuditRow("user_group", <<r.id>>, "invite", o.user, o.group)
    ELSE IF o.kind = "accept"
    THEN AuditRow("user_group", <<r.id>>, "accept_invitation", o.user,
                  r.group)
    ELSE IF o.kind = "reject"
    THEN AuditRow("user_group", <<r.id>>, "reject_invitation", o.user,
                  r.group)
    ELSE IF o.kind = "updateRole"
    THEN AuditRow("user_group", <<r.id>>, "update_role", o.user, o.group)
    ELSE IF o.kind = "remove"
    THEN AuditRow("user_group", <<o.target>>, "remove_member", o.user,
                  o.group)
    ELSE AuditRow("user_group", <<r.id>>, "leave_group", o.user, o.group)

\* s.auditRepo.Create(auditLog): a failure is logged and the handler
\* returns nil all the same
MemberAudit(p) ==
    /\ pc[p] = "maudit"
    /\ \/ audit' = audit (+) SetToBag({MemberAuditRow(op[p], rd[p])})
       \/ audit' = audit
    /\ Finish(p, "OK", NoTx)
    /\ UNCHANGED <<ubal, gbal, utx, gtx, exp, gone, members, locks, op,
                   wrote, opCount>>

\* the state CreateGroup leaves: the creator is the active manager
MemberInit ==
    /\ \E i \in UserGroupIds :
           members = {UserGroup(i, "u1", "g1", "manager", "active")}
    /\ ubal = [u \in Users |-> 0]
    /\ gbal = [g \in Groups |-> 0]
    /\ utx = [u \in Users |-> <<>>]
    /\ gtx = [g \in Groups |-> <<>>]
    /\ audit = EmptyBag
    /\ exp = [e \in Expenses |-> PlannedRow]
    /\ gone = {}
    /\ locks = [r \in Rows |-> NoProc]
    /\ pc = [p \in Procs |-> "idle"]
    /\ op = [p \in Procs |-> NoOp]
    /\ rd = [p \in Procs |-> NoRd]
    /\ result = [p \in Procs |-> NONE]
    /\ ret = [p \in Procs |-> NoTx]
    /\ wrote = [p \in Procs |-> FALSE]
    /\ opCount = 0

MemberStep(p) ==
    \/ InviteMember(p)
    \/ FindInvitee(p)
    \/ AddMember(p)
    \/ AcceptInvitation(p)
    \/ UpdateMemberRole(p)
    \/ FindTarget(p)
    \/ UpdateMember(p)
    \/ RemoveMember(p)
    \/ RepoRemoveMember(p)
    \/ LeaveGroup(p)
    \/ FindMembers(p)
    \/ GetPendingInvitations(p)
    \/ MemberAudit(p)

MemberNext == \E p \in Procs : MemberStep(p)

MemberSpec == MemberInit /\ [][MemberNext]_vars


\* a live row of g with status active and role manager
HasManager(g) ==
    \E r \in Live : r.group = g /\ r.status = "active" /\ r.role = "manager"

\* C31: in every state reachable from CreateGroup through InviteMember,
\* AcceptInvitation, RejectInvitation, UpdateMemberRole, RemoveMember and
\* LeaveGroup, interleaved in any way, every group that is not deleted has
\* at least one membership row with status active and role manager.
C31_ActiveManager == \A g \in Groups \ gone : HasManager(g)

\* every request has returned, an UpdateMemberRole among them with a nil
\* error, and g1 is left without an active manager
C31_NoManager ==
    /\ \A p \in Procs : pc[p] \in {"idle", "done"}
    /\ \E p \in Procs : op[p].kind = "updateRole" /\ result[p] = "OK"
    /\ "g1" \notin gone
    /\ ~HasManager("g1")


\* C32: in every reachable state a user has at most one live membership
\* row per group: InviteMember never adds a second row for a user who has
\* one (pending, active or rejected), even when two InviteMember calls for
\* the same user and group run at the same time.
C32_OneMembership ==
    \A r, q \in Live : r.user = q.user /\ r.group = q.group => r.id = q.id

\* every request has returned and u2 has a rejected and a pending live
\* row for g1
C32_InvitedTwice ==
    /\ \A p \in Procs : pc[p] \in {"idle", "done"}
    /\ \E r, q \in Live :
           /\ r.user = "u2" /\ q.user = "u2"
           /\ r.group = "g1" /\ q.group = "g1"
           /\ r.status = "rejected" /\ q.status = "pending"


\* the invitation ids GetPendingInvitations(u) lists now
ListedIds(u) == {RowUuid(r.id) : r \in FindPendingInvitations(u)}

\* C33: AcceptInvitation or RejectInvitation called by u with the id of an
\* invitation that GetPendingInvitations(u) lists finds that membership
\* row and goes on to save it; its save turns exactly that row from
\* pending into active (rejected), and no step of either call changes a
\* row whose status is not pending.
C33_ListedInvitation ==
    [][\A p \in Procs :
          /\ (/\ Started(p)
              /\ op'[p].kind \in {"accept", "reject"}
              /\ op'[p].inv \in ListedIds(op'[p].user))
             => /\ pc'[p] = "update"
                /\ RowUuid(rd'[p].id) = op'[p].inv
          /\ (/\ op[p].kind \in {"accept", "reject"}
              /\ pc[p] = "update"
              /\ pc'[p] = "maudit")
             => /\ \A r \in members : r.status # "pending" => r \in members'
                /\ \E r \in members :
                       /\ RowUuid(r.id) = op[p].inv
                       /\ r.status = "pending"
                       /\ members' = (members \ {r}) \cup {rd[p]}]_vars

\* a worker has returned the listing of u2's pending invitations, the
\* invitation is still pending, and AcceptInvitation or RejectInvitation
\* by u2 with the listed id has returned INVITATION_NOT_FOUND
C33_ListedNotFound ==
    \E p, q \in Procs :
        /\ pc[p] = "done" /\ pc[q] = "done"
        /\ op[q].kind = "pending" /\ result[q] = "OK"
        /\ op[p].kind \in {"accept", "reject"}
        /\ op[p].user = op[q].user
        /\ result[p] = "INVITATION_NOT_FOUND"
        /\ op[p].inv \in {x.id : x \in ret[q].invitations}
        /\ op[p].inv \in ListedIds(op[p].user)

====
